---------------------------- MODULE Spec2Model ----------------------------
(***************************************************************************)
(* Model of the AniDB UDP client (src/src/lib.rs) and its response cache   *)
(* (src/src/cache.rs).                                                     *)
(*                                                                         *)
(* Text is a sequence of symbols.  A byte read from a datagram is one      *)
(* symbol ("2", " ", "\n", ...); the literal pieces of a format string and *)
(* the values substituted into it are one symbol each, so that             *)
(* concatenation is \o and text equality is sequence equality.             *)
(***************************************************************************)
EXTENDS Integers, Sequences, FiniteSets, TLC

(***************************************************************************)
(* Bounds of the model.                                                    *)
(***************************************************************************)
MaxTime == 12
MaxCalls == 3

\* The resolution of the clock, in seconds: every instant the clock shows
\* is a multiple of it.
ClockStep == 2

(***************************************************************************)
(* Results: Rust's Result<T, AnidbError> (src/src/errors.rs) and a panic.  *)
(***************************************************************************)
Ok(v) == [tag |-> "Ok", val |-> v]

Err(kind, info) == [tag |-> "Err", kind |-> kind, info |-> info]

Panic(msg) == [tag |-> "Panic", msg |-> msg]

(***************************************************************************)
(* Text helpers.                                                           *)
(***************************************************************************)
Digits == {"0", "1", "2", "3", "4", "5", "6", "7", "8", "9"}

DigitVal(c) ==
    CASE c = "0" -> 0 [] c = "1" -> 1 [] c = "2" -> 2 [] c = "3" -> 3
      [] c = "4" -> 4 [] c = "5" -> 5 [] c = "6" -> 6 [] c = "7" -> 7
      [] c = "8" -> 8 [] c = "9" -> 9

\* A byte that is not valid UTF-8 on its own.
InvalidByte == "\\xff"

\* U+FFFD, what from_utf8_lossy puts in the place of an invalid byte.
Replacement == "\\ufffd"

Slice(s, from, to) == SubSeq(s, from + 1, to)

AllDigits(s) == \A i \in 1..Len(s) : s[i] \in Digits

RECURSIVE DecimalValue(_)
DecimalValue(s) ==
    IF s = <<>> THEN 0
    ELSE 10 * DecimalValue(SubSeq(s, 1, Len(s) - 1)) + DigitVal(s[Len(s)])

\* str::split(sep): the pieces between the separators, at least one piece.
\* The text is bound to t so that it is worked out once.
RECURSIVE Split(_, _)
Split(s, sep) ==
    LET pieces(t) ==
            IF \A i \in 1..Len(t) : t[i] # sep THEN <<t>>
            ELSE LET i == CHOOSE j \in 1..Len(t) :
                             t[j] = sep /\ \A k \in 1..(j - 1) : t[k] # sep
                 IN  <<SubSeq(t, 1, i - 1)>>
                        \o Split(SubSeq(t, i + 1, Len(t)), sep)
    IN  CHOOSE p \in { pieces(t) : t \in {s} } : TRUE

\* str::from_utf8 on a byte slice.
from_utf8(bytes) ==
    IF \E i \in 1..Len(bytes) : bytes[i] = InvalidByte
    THEN Err("Utf8Error", bytes)
    ELSE Ok(bytes)

\* String::from_utf8_lossy on a byte slice.
from_utf8_lossy(bytes) ==
    [i \in 1..Len(bytes) |->
        IF bytes[i] = InvalidByte THEN Replacement ELSE bytes[i]]

\* str::parse::<i32>(): an optional sign, then one or more decimal digits.
\* The callers pass three bytes, so the value cannot overflow.
parse_i32(s) ==
    LET signed == Len(s) > 0 /\ s[1] \in {"+", "-"}
        digits == IF signed THEN SubSeq(s, 2, Len(s)) ELSE s
    IN  IF digits = <<>> \/ ~AllDigits(digits)
        THEN Err("ParseIntError", s)
        ELSE IF signed /\ s[1] = "-"
             THEN Ok(0 - DecimalValue(digits))
             ELSE Ok(DecimalValue(digits))

RECURSIVE StripZeros(_)
StripZeros(s) ==
    IF Len(s) > 1 /\ s[1] = "0" THEN StripZeros(Tail(s)) ELSE s

U32Max == <<"4", "2", "9", "4", "9", "6", "7", "2", "9", "5">>

RECURSIVE NumeralLeq(_, _)
NumeralLeq(a, b) ==
    IF a = <<>> THEN TRUE
    ELSE IF DigitVal(a[1]) < DigitVal(b[1]) THEN TRUE
    ELSE IF DigitVal(a[1]) > DigitVal(b[1]) THEN FALSE
    ELSE NumeralLeq(Tail(a), Tail(b))

\* str::parse::<u32>(): an optional "+", then one or more decimal digits,
\* at most u32::MAX.  The value is kept as its canonical decimal numeral.
parse_u32(s) ==
    LET plus   == Len(s) > 0 /\ s[1] = "+"
        digits == IF plus THEN Tail(s) ELSE s
        num    == StripZeros(digits)
    IN  IF digits = <<>> \/ ~AllDigits(digits)
        THEN Err("ParseIntError", s)
        ELSE IF Len(num) > Len(U32Max)
                  \/ (Len(num) = Len(U32Max) /\ ~NumeralLeq(num, U32Max))
             THEN Err("ParseIntError", s)
             ELSE Ok(num)

(***************************************************************************)
(* Request formatting (lib.rs, format_*_string).                           *)
(***************************************************************************)
\* A LOGOUT command without the token.
format_logout_string_bare(session_id) == <<"LOGOUT s=">>

format_logout_string(session_id) == <<"LOGOUT s=">> \o session_id

format_login_string(username, password) ==
    <<"AUTH user=">> \o username \o <<"&pass=">> \o password
        \o <<"&protover=3&client=anidbrs&clientver=1">>

format_file_hash_str(hash) ==
    <<"FILE size=", ToString(hash.size), "&ed2k=", hash.hex,
      "&fmask=7000000100&amask=F0B8E0C0">>

\* format!("{}&s={}", message, s) in Anidb::call.
format_with_session(message, s) == message \o <<"&s=">> \o s

(***************************************************************************)
(* Reply parsing and validation.                                           *)
(***************************************************************************)
ServerReply(code, data) == [code |-> code, data |-> data]

parse_reply(reply, len) ==
    IF len < 5 THEN Err("StaticError", <<"Reply less than 5 chars">>)
    ELSE LET code_str == from_utf8(Slice(reply, 0, 3))
         IN  IF code_str.tag = "Err" THEN code_str
             ELSE LET code == parse_i32(code_str.val)
                  IN  IF code.tag = "Err" THEN code
                      ELSE Ok(ServerReply(code.val,
                                  from_utf8_lossy(Slice(reply, 4, len))))

\* A validation that does not look at the words after the token.
validate_auth_command_lax(reply) ==
    IF reply.code # 200 THEN Err("ErrorCode", <<reply.code, reply.data>>)
    ELSE LET v == Split(reply.data, " ")
         IN  IF Len(v) # 3 THEN Err("Error", <<"Invalid AUTH reply: expceted 3 args">>)
             ELSE Ok(v[1])

validate_auth_command(reply) ==
    IF reply.code # 200 THEN Err("ErrorCode", <<reply.code, reply.data>>)
    ELSE LET v == Split(reply.data, " ")
         IN  IF Len(v) # 3 THEN Err("Error", <<"Invalid AUTH reply: expceted 3 args">>)
             ELSE IF v[2] # <<"L", "O", "G", "I", "N">>
                       \/ v[3] # <<"A", "C", "C", "E", "P", "T", "E", "D", "\n">>
                  THEN Err("Error", <<"Invalid AUTH reply: LOGIN ACCEPTED\\n expected">>)
                  ELSE Ok(v[1])

\* A decoding that knows the code 320 only.
file_from_reply_any(reply) ==
    IF reply.code = 320 THEN Err("NoSuchFile", <<>>)
    ELSE Err("Error", <<"Unexpected code", reply.code>>)

\* The decoding of a FILE reply, the match in Anidb::file_from_hash.  An
\* expect() on a missing line, a missing field or a bad number panics.
FileFieldCount == 18

file_from_reply(reply) ==
    CASE reply.code = 322 -> Err("Error", <<"Found multiple files. Panic!">>)
      [] reply.code = 320 -> Err("NoSuchFile", <<>>)
      [] reply.code = 220 ->
            LET file(fields) ==
                    IF Len(fields) < FileFieldCount
                    THEN Panic("field not found")
                    ELSE LET fid        == parse_u32(fields[1])
                             aid        == parse_u32(fields[2])
                             eid        == parse_u32(fields[3])
                             gid        == parse_u32(fields[4])
                             total_eps  == parse_u32(fields[6])
                             highest_ep == parse_u32(fields[7])
                         IN  IF \E n \in {fid, aid, eid, gid, total_eps, highest_ep} :
                                    n.tag = "Err"
                             THEN Panic("number")
                             ELSE Ok([fid |-> fid.val, aid |-> aid.val,
                                      eid |-> eid.val, gid |-> gid.val,
                                      filename |-> fields[5],
                                      total_eps |-> total_eps.val,
                                      highest_ep |-> highest_ep.val,
                                      year |-> fields[8], typ |-> fields[9],
                                      series_romaji |-> fields[10],
                                      series_english |-> fields[11],
                                      series_other |-> fields[12],
                                      series_short |-> fields[13],
                                      ep_number |-> fields[14],
                                      ep_name |-> fields[15],
                                      ep_romaji |-> fields[16],
                                      group_name |-> fields[17],
                                      group_short |-> fields[18]])
                lines == Split(reply.data, "\n")
            IN  IF Len(lines) < 2 THEN Panic("FILE format error")
                ELSE CHOOSE f \in { file(fields) :
                                       fields \in {Split(lines[2], "|")} } : TRUE
      [] OTHER -> Err("Error", <<"Unexpected code", reply.code>>)

(***************************************************************************)
(* The cache (src/src/cache.rs): the rows of table apicall, a function     *)
(* from the query text (PRIMARY KEY) to the stored (code, answer).  The    *)
(* column time_created is written and never read; it is left out.  The     *)
(* database file is taken to be healthy: the only errors are the ones the  *)
(* statements themselves produce.                                          *)
(***************************************************************************)
Cache_get(rows, query) ==
    IF query \in DOMAIN rows
    THEN Ok(ServerReply(rows[query].code, rows[query].data))
    ELSE Err("SqliteError", <<"QueryReturnedNoRows">>)

\* A put that executes nothing.
Cache_put_rows_noop(rows, query, reply) == rows

\* The rows after INSERT INTO apicall ...: a plain INSERT, which fails on a
\* query that is already there and then changes nothing.
Cache_put_rows(rows, query, reply) ==
    IF query \in DOMAIN rows THEN rows
    ELSE (query :> ServerReply(reply.code, reply.data)) @@ rows

Cache_put(rows, query, reply) ==
    IF query \in DOMAIN rows
    THEN Err("SqliteError", <<"ConstraintViolation">>)
    ELSE Ok(<<>>)

(***************************************************************************)
(* Inputs of the model: the credentials, the fingerprints and the          *)
(* datagrams a server may answer with.                                     *)
(***************************************************************************)
Credentials ==
    { [user |-> <<"foo">>, pwd |-> <<"bar">>],
      [user |-> <<"leeloo_dallas">>, pwd |-> <<"multipass">>] }

Hashes ==
    { [size |-> 1, hex |-> "31d6cfe0d16ae931b73c59d7e0c089c0"],
      [size |-> 2, hex |-> "bde52cb31de33e46245e05fbdbd6fb24"] }

\* The token MockServer::new draws: five ASCII characters.
MockToken == <<"x", "7", "Q", "p", "2">>

OtherToken == <<"t", "o", "k">>

Tokens == {MockToken, OtherToken}

\* format!("200 {} LOGIN ACCEPTED\n", self.token) in MockServer::update.
LoginAcceptedReply(token) ==
    <<"2", "0", "0", " ">> \o token
        \o <<" ", "L", "O", "G", "I", "N", " ",
             "A", "C", "C", "E", "P", "T", "E", "D", "\n">>

MockReply == LoginAcceptedReply(MockToken)

LoginFailedReply ==
    <<"5", "0", "0", " ", "L", "O", "G", "I", "N", " ", "F", "A", "I", "L",
      "E", "D">>

TooShortReply ==
    <<"3", "D">>

FileFoundReply ==
    <<"2", "2", "0", " ", "F", "I", "L", "E", "\n", "1", "|", "2", "|",
      "3", "|", "4", "|", "f", ".", "m", "k", "v", "|", "2", "5", "|", "2",
      "5", "|", "2", "0", "1", "7", "|", "T", "V", "|", "L", "W", "A", "|",
      "|", "|", "l", "w", "a", "|", "0", "1", "|", "A", "|", "B", "|", "G",
      "|", "g", "|", "9">>

FileTruncatedReply ==
    <<"2", "2", "0", " ", "F", "I", "L", "E", "\n", "1", "|", "2">>

NoSuchFileReply ==
    <<"3", "2", "0", " ", "N", "O", " ", "S", "U", "C", "H", " ", "F", "I",
      "L", "E", "\n">>

\* A code-220 reply with all its fields whose aid is not a number.
FileBadNumberReply ==
    <<"2", "2", "0", " ", "F", "I", "L", "E", "\n", "1", "|", "x", "|",
      "3", "|", "4", "|", "f", ".", "m", "k", "v", "|", "2", "5", "|", "2",
      "5", "|", "2", "0", "1", "7", "|", "T", "V", "|", "L", "W", "A", "|",
      "|", "|", "l", "w", "a", "|", "0", "1", "|", "A", "|", "B", "|", "G",
      "|", "g", "|", "9">>

MultipleFilesReply ==
    <<"3", "2", "2", " ", "M", "U", "L", "T", "I", "P", "L", "E", " ", "F",
      "I", "L", "E", "S", " ", "F", "O", "U", "N", "D", "\n">>

\* A code-200 reply with three words that does not grant the login.
LoginRejectedReply ==
    <<"2", "0", "0", " ">> \o OtherToken
        \o <<" ", "L", "O", "G", "I", "N", " ",
             "R", "E", "J", "E", "C", "T", "E", "D", "\n">>

Datagrams ==
    { LoginAcceptedReply(t) : t \in Tokens }
        \cup { LoginFailedReply, TooShortReply, FileFoundReply,
               FileTruncatedReply, NoSuchFileReply, FileBadNumberReply,
               MultipleFilesReply, LoginRejectedReply }

\* The rows a previous run of the program can have left in the database.
StoredReplies ==
    { parse_reply(d, Len(d)).val : d \in {FileFoundReply, NoSuchFileReply} }

FileQueries == { format_file_hash_str(h) : h \in Hashes }

InitCaches ==
    UNION { [qs -> StoredReplies] : qs \in SUBSET FileQueries }

(***************************************************************************)
(* The client: struct Anidb of lib.rs, the clock, the call in progress and *)
(* the record of what was called and transmitted.                          *)
(***************************************************************************)
VARIABLES
    session,    \* Anidb::session
    last_send,  \* Anidb::last_send, an instant of the clock
    cache,      \* Anidb::cache, the rows of the database
    now,        \* the monotonic clock, Instant::now()
    pc,         \* "idle", "recv" (blocked in socket.recv), "read" (in
                \* file.read) or "panicked"
    frame,      \* the locals of the call blocked in recv: the exchange it
                \* waits for ("auth", "file", "logout") and its message;
                \* in the harnesses, the locals of the function applied
    result,     \* what the last call returned
    wire,       \* the datagrams put on the socket, each with its reply
    calls,      \* the calls made on the client, in order, each with the
                \* session and the length of wire on entry
    mutex,      \* anisort: the Mutex around the client
    jobs,       \* anisort: the files of the batch, each with where its
                \* search stands and the datagrams it sent and received
    disk,       \* anisort: the files and directories of the file system
    mode_noop   \* anisort: the flag -n

\* The client and what is recorded about it.
client == <<session, last_send, cache, now, pc, frame, result, wire, calls>>

\* The state of the program anisort around the client.
driver == <<mutex, jobs, disk, mode_noop>>

vars == <<session, last_send, cache, now, pc, frame, result, wire, calls,
          mutex, jobs, disk, mode_noop>>

\* enum Session.
Disconnected == [tag |-> "Disconnected"]

Pending(user, pwd) == [tag |-> "Pending", user |-> user, pwd |-> pwd]

Connected(token) == [tag |-> "Connected", token |-> token]

\* The instants the clock can show.
Instants == { t \in 0..MaxTime : t % ClockStep = 0 }

\* Duration::from_secs(4) in Anidb::new.
ratelimit == 4

\* let mut result = [0; 2048] in send_wait_reply.
BufferSize == 2048

NoReply == <<>>

NoResult == [tag |-> "None"]

Running == [tag |-> "Running"]

NoFrame == [stage |-> "none", message |-> <<>>]

LastCall == calls[Len(calls)]

\* Mutex::new: no guard is alive and no thread panicked holding one.  order
\* records the jobs that locked it, in order.
Unlocked == [locked |-> FALSE, poisoned |-> FALSE, order |-> <<>>]

NoDisk == [files |-> {}, dirs |-> {}]

\* anisort before main has parsed its arguments.
DriverIdle ==
    /\ mutex = Unlocked
    /\ jobs = <<>>
    /\ disk = NoDisk
    /\ mode_noop = FALSE

Init ==
    /\ DriverIdle
    /\ session = Disconnected
    /\ last_send = 0
    /\ now = 0
    /\ cache \in InitCaches
    /\ pc = "idle"
    /\ frame = NoFrame
    /\ result = NoResult
    /\ wire = <<>>
    /\ calls = <<>>

\* A call returns res to its caller, or unwinds with a panic.
Return(res) ==
    /\ pc' = IF res.tag = "Panic" THEN "panicked" ELSE "idle"
    /\ result' = res
    /\ frame' = NoFrame

\* A send_wait_reply that does not sleep.
sleep_duration_none(period) == 0

\* send_wait_reply, lines 246-250: how long the thread sleeps.
sleep_duration(period) ==
    IF period < ratelimit THEN ratelimit - period ELSE 0

\* send_wait_reply up to socket.send: sleep (at least the duration asked
\* for), set last_send, send.  A successful send leaves the call blocked in
\* socket.recv; a failed one returns the Io error.
Transmit(w, message, stage, f) ==
    \E t \in { u \in Instants : u >= now + sleep_duration(now - last_send) } :
        /\ now' = t
        /\ last_send' = t
        /\ \/ /\ wire' = Append(w, [msg |-> message, reply |-> NoReply])
              /\ frame' = [f EXCEPT !.stage = stage]
              /\ pc' = "recv"
              /\ result' = Running
           \/ /\ wire' = w
              /\ Return(Err("Io", <<"send">>))

\* An assert_session that sends AUTH whenever the session is not
\* Disconnected.
login_cmd_reauth(s) ==
    IF s.tag = "Pending" THEN format_login_string(s.user, s.pwd)
    ELSE IF s.tag = "Connected" THEN format_login_string(s.token, s.token)
    ELSE <<>>

\* The match at the head of assert_session.
login_cmd(s) ==
    IF s.tag = "Pending" THEN format_login_string(s.user, s.pwd) ELSE <<>>

\* An assert_session that answers an empty token when there is no session.
session_token_lenient(s) ==
    IF s.tag = "Connected" THEN Ok(s.token) ELSE Ok(<<>>)

\* The match at the end of assert_session.
session_token(s) ==
    IF s.tag = "Connected" THEN Ok(s.token) ELSE Panic("unreachable")

\* A logout that sends LOGOUT for a session that is only pending.
logout_cmd_pending(s) ==
    IF s.tag = "Connected" THEN format_logout_string(s.token)
    ELSE IF s.tag = "Pending" THEN format_logout_string(s.user)
    ELSE <<>>

\* The match at the head of logout.
logout_cmd(s) ==
    IF s.tag = "Connected" THEN format_logout_string(s.token) ELSE <<>>

\* A call_cached that never uses the cache.
call_cached_lookup_miss(rows, message) ==
    [hit |-> FALSE, reply |-> Cache_get(rows, message)]

\* The match of call_cached: the cached reply, or the signal to call.
call_cached_lookup(rows, message) ==
    LET cached == Cache_get(rows, message)
    IN  IF cached.tag = "Err" /\ cached.info = <<"QueryReturnedNoRows">>
        THEN [hit |-> FALSE, reply |-> cached]
        ELSE [hit |-> TRUE, reply |-> cached]

\* A call that stores the reply under the text it sent.
call_cache_key_sent(message, mws) == mws

\* The key under which call stores the reply to the datagram mws.
call_cache_key(message, mws) == message

StartCall(op, arg) ==
    /\ pc = "idle"
    /\ Len(calls) < MaxCalls
    /\ calls' = Append(calls, [op |-> op, arg |-> arg,
                                session0 |-> session, wire0 |-> Len(wire)])

\* A login that keeps the session of a client that is connected.
login_keeps_session(username, password) ==
    /\ StartCall("login", <<username, password>>)
    /\ session' = IF session.tag = "Connected" THEN session
                  ELSE Pending(username, password)
    /\ Return(Ok(<<>>))
    /\ UNCHANGED <<last_send, cache, now, wire>>

login(username, password) ==
    /\ StartCall("login", <<username, password>>)
    /\ session' = Pending(username, password)
    /\ Return(Ok(<<>>))
    /\ UNCHANGED <<last_send, cache, now, wire>>

\* A logout that keeps the session it had.
session_after_logout_kept(s) == s

\* logout, line 127: the session once the command, if any, was answered.
session_after_logout(s) == Disconnected

logout ==
    /\ StartCall("logout", <<>>)
    /\ LET cmd == logout_cmd(session)
       IN  IF cmd # <<>>
           THEN /\ Transmit(wire, cmd, "logout", NoFrame)
                /\ UNCHANGED <<session, cache>>
           ELSE /\ session' = session_after_logout(session)
                /\ Return(Ok(<<>>))
                /\ UNCHANGED <<last_send, cache, now, wire>>

\* call, from the session token on: the command with the token is sent.
SendWithSession(w, f, s) ==
    IF s.tag = "Panic"
    THEN /\ Return(s)
         /\ wire' = w
         /\ UNCHANGED <<last_send, now>>
    ELSE Transmit(w, format_with_session(f.message, s.val), "file", f)

file_from_hash(hash) ==
    /\ StartCall("file", <<hash>>)
    /\ LET file_str == format_file_hash_str(hash)
           f == [NoFrame EXCEPT !.message = file_str]
           cached == call_cached_lookup(cache, file_str)
           cmd == login_cmd(session)
       IN  IF cached.hit
           THEN /\ Return(IF cached.reply.tag = "Ok"
                          THEN file_from_reply(cached.reply.val)
                          ELSE cached.reply)
                /\ UNCHANGED <<session, last_send, cache, now, wire>>
           ELSE /\ IF cmd # <<>>
                   THEN Transmit(wire, cmd, "auth", f)
                   ELSE SendWithSession(wire, f, session_token(session))
                /\ UNCHANGED <<session, cache>>

\* socket.recv returns datagram d; the call goes on from there.
Recv(d) ==
    /\ pc = "recv"
    /\ LET len == IF Len(d) < BufferSize THEN Len(d) ELSE BufferSize
           w == [wire EXCEPT ![Len(wire)].reply = d]
           reply == parse_reply(d, len)
       IN  IF reply.tag = "Err"
           THEN /\ Return(reply)
                /\ wire' = w
                /\ UNCHANGED <<session, last_send, cache, now>>
           ELSE CASE frame.stage = "logout" ->
                       /\ session' = session_after_logout(session)
                       /\ Return(Ok(<<>>))
                       /\ wire' = w
                       /\ UNCHANGED <<last_send, cache, now>>
                  [] frame.stage = "auth" ->
                       LET v == validate_auth_command(reply.val)
                       IN  IF v.tag = "Err"
                           THEN /\ Return(v)
                                /\ wire' = w
                                /\ UNCHANGED <<session, last_send, cache, now>>
                           ELSE /\ session' = Connected(v.val)
                                /\ SendWithSession(w, frame,
                                       session_token(Connected(v.val)))
                                /\ UNCHANGED cache
                  [] frame.stage = "file" ->
                       LET key == call_cache_key(frame.message,
                                      wire[Len(wire)].msg)
                           put == Cache_put(cache, key, reply.val)
                       IN  /\ cache' = Cache_put_rows(cache, key, reply.val)
                           /\ Return(IF put.tag = "Err" THEN put
                                     ELSE file_from_reply(reply.val))
                           /\ wire' = w
                           /\ UNCHANGED <<session, last_send, now>>
    /\ UNCHANGED calls

\* socket.recv fails.
RecvError ==
    /\ pc = "recv"
    /\ Return(Err("Io", <<"recv">>))
    /\ UNCHANGED <<session, last_send, cache, now, wire, calls>>

\* Time passes.
Tick ==
    /\ now + ClockStep \in Instants
    /\ now' = now + ClockStep
    /\ UNCHANGED <<session, last_send, cache, pc, frame, result, wire, calls>>

(***************************************************************************)
(* The client in the hands of one caller, as in tests/lib.rs: the calls    *)
(* and the steps of the client, with nothing of anisort around it.         *)
(***************************************************************************)
db_login(username, password) ==
    login(username, password) /\ UNCHANGED driver

db_logout == logout /\ UNCHANGED driver

db_file_from_hash(hash) == file_from_hash(hash) /\ UNCHANGED driver

db_recv(d) == Recv(d) /\ UNCHANGED driver

db_recv_error == RecvError /\ UNCHANGED driver

db_tick == Tick /\ UNCHANGED driver

Next ==
    \/ \E c \in Credentials : db_login(c.user, c.pwd)
    \/ db_logout
    \/ \E h \in Hashes : db_file_from_hash(h)
    \/ \E d \in Datagrams : db_recv(d)
    \/ db_recv_error
    \/ db_tick

(***************************************************************************)
(* The cache on its own: Cache::put and Cache::get called directly, on any *)
(* rows a previous run can have left.  calls records each call with what   *)
(* it returned.                                                            *)
(***************************************************************************)
CacheCall(op, arg, ret) ==
    /\ Len(calls) < MaxCalls
    /\ calls' = Append(calls, [op |-> op, arg |-> arg, ret |-> ret])
    /\ result' = ret
    /\ UNCHANGED driver

Cache_put_call(query, reply) ==
    /\ CacheCall("put", <<query, reply>>, Cache_put(cache, query, reply))
    /\ cache' = Cache_put_rows(cache, query, reply)
    /\ UNCHANGED <<session, last_send, now, pc, frame, wire>>

Cache_get_call(query) ==
    /\ CacheCall("get", <<query>>, Cache_get(cache, query))
    /\ UNCHANGED <<session, last_send, cache, now, pc, frame, wire>>

NextCache ==
    \/ \E q \in FileQueries : \E r \in StoredReplies : Cache_put_call(q, r)
    \/ \E q \in FileQueries : Cache_get_call(q)

SpecCache == Init /\ [][NextCache]_vars

(***************************************************************************)
(* The two reply functions on their own: parse_reply applied to a datagram *)
(* as the unit tests of lib.rs apply it, and validate_auth_command applied *)
(* to a parsed reply as assert_session applies it, on a client with an     *)
(* empty cache on which login("foo", "bar") was called.  A behaviour       *)
(* applies one function to one argument: frame holds the argument and      *)
(* result what was returned.                                               *)
(***************************************************************************)
\* The bytes the code of a datagram is drawn from.
CodeBytes == {"0", "7", "9", "+", "-", "a", InvalidByte}

SeparatorBytes == {" ", "x"}

Payloads == { <<"O">>, <<"O", "K">>, <<InvalidByte>> }

\* Datagrams of five bytes and more, and all that are shorter.
ReplyBytes ==
    { <<a, b, c, sep>> \o data :
          a \in CodeBytes, b \in CodeBytes, c \in CodeBytes,
          sep \in SeparatorBytes, data \in Payloads }
        \cup UNION { [1..n -> CodeBytes] : n \in 0..4 }

RECURSIVE Join(_, _)
Join(parts, sep) ==
    IF Len(parts) = 1 THEN parts[1]
    ELSE parts[1] \o <<sep>> \o Join(Tail(parts), sep)

AuthWords ==
    { OtherToken, <<>>,
      <<"L", "O", "G", "I", "N">>,
      <<"A", "C", "C", "E", "P", "T", "E", "D", "\n">>,
      <<"A", "C", "C", "E", "P", "T", "E", "D">>,
      <<"R", "E", "J", "E", "C", "T", "E", "D", "\n">> }

\* Parsed replies to AUTH: one to four words with a space between them.
AuthReplies ==
    { ServerReply(code, Join(parts, " ")) :
          code \in {200, 500},
          parts \in UNION { [1..n -> AuthWords] : n \in 1..4 } }

parse_reply_call ==
    /\ pc = "idle"
    /\ frame = NoFrame
    /\ \E reply \in ReplyBytes :
          /\ frame' = [stage |-> "parse_reply", message |-> reply]
          /\ result' = parse_reply(reply, Len(reply))
    /\ UNCHANGED <<session, last_send, cache, now, pc, wire, calls>>
    /\ UNCHANGED driver

\* assert_session from the parsed reply on: the session becomes Connected
\* when validate_auth_command returns a token, and the error is returned
\* otherwise.
assert_session_validate ==
    /\ pc = "idle"
    /\ frame = NoFrame
    /\ session.tag = "Pending"
    /\ \E reply \in AuthReplies :
          LET v == validate_auth_command(reply)
          IN  /\ session' = IF v.tag = "Err" THEN session
                            ELSE Connected(v.val)
              /\ result' = v
              /\ frame' = [stage |-> "validate_auth_command",
                           message |-> reply]
    /\ UNCHANGED <<last_send, cache, now, pc, wire, calls>>
    /\ UNCHANGED driver

\* The client after Anidb::new on an empty cache and login("foo", "bar").
InitParse ==
    /\ DriverIdle
    /\ session = Pending(<<"foo">>, <<"bar">>)
    /\ last_send = 0
    /\ now = 0
    /\ cache = <<>>
    /\ pc = "idle"
    /\ frame = NoFrame
    /\ result = Ok(<<>>)
    /\ wire = <<>>
    /\ calls = <<[op |-> "login", arg |-> << <<"foo">>, <<"bar">> >>,
                  session0 |-> Disconnected, wire0 |-> 0]>>

NextParse ==
    \/ parse_reply_call
    \/ assert_session_validate

SpecParse == InitParse /\ [][NextParse]_vars

(***************************************************************************)
(* The fingerprint (src/src/ed2k.rs).  A file is its size; its contents    *)
(* are the bytes at the offsets 0..size-1, and a slice of them is the pair *)
(* of its bounds.  MD4 (src/src/md4.rs) is a fixed function of the input   *)
(* it was fed: a digest is the record of that input, a sequence of slices  *)
(* and digests.  frame holds the locals of from_file.                      *)
(***************************************************************************)
BLOCKSIZE == 9500 * 1024

FileSizes ==
    { 0, 1, 2, BLOCKSIZE - 1, BLOCKSIZE, BLOCKSIZE + 1, 2 * BLOCKSIZE - 1,
      2 * BLOCKSIZE, 2 * BLOCKSIZE + 1, 3 * BLOCKSIZE }

Bytes(from, to) == [from |-> from, to |-> to]

\* Digest::input: the context with more input; an empty slice adds nothing.
Md4_input(ctx, piece) == IF piece = <<>> THEN ctx ELSE Append(ctx, piece)

\* Digest::result: the digest of what the context was fed.
Md4_result(ctx) == [md4 |-> ctx]

\* let mut md4_digest = [0; 16].
ZeroDigest == [md4 |-> "zero"]

Ed2kHash_hex(bin) == [hex |-> bin]

\* A block count that, like the eDonkey clients, adds an empty block to a
\* file that is a multiple of the block size.
ed2k_blocks_extra(file_size) == file_size \div BLOCKSIZE + 1

\* from_file, lines 28-31.
ed2k_blocks(file_size) ==
    IF file_size % BLOCKSIZE > 0 THEN file_size \div BLOCKSIZE + 1
    ELSE file_size \div BLOCKSIZE

Ed2kHash(md4_digest, file_size) ==
    [bin |-> md4_digest, hex |-> Ed2kHash_hex(md4_digest), size |-> file_size]

\* What file.read may return at pos: all that the buffer and the file
\* allow, or a part of it; 0 at the end of the file only.
ReadSizes(file_size, pos) ==
    LET rest == file_size - pos
        full == IF rest < BLOCKSIZE THEN rest ELSE BLOCKSIZE
    IN  {full} \cup {n \in {full \div 2} : n > 0}

\* from_file up to the first read.
from_file(file_size) ==
    /\ pc = "idle"
    /\ LET blocks == ed2k_blocks(file_size)
           locals == [stage |-> "from_file", message |-> <<>>,
                      file_size |-> file_size, blocks |-> blocks, i |-> 0,
                      pos |-> 0, ctx_f |-> <<>>, md4_digest |-> ZeroDigest,
                      reads |-> <<>>]
       IN  \/ Return(Err("Io", <<"open">>))
           \/ /\ frame' = locals
              /\ pc' = IF blocks = 0 THEN "idle" ELSE "read"
              /\ result' = IF blocks = 0
                           THEN Ok(Ed2kHash(ZeroDigest, file_size))
                           ELSE Running
    /\ UNCHANGED <<session, last_send, cache, now, wire, calls>>
    /\ UNCHANGED driver

\* One turn of the loop, and what follows the loop after the last one.
from_file_read ==
    /\ pc = "read"
    /\ \/ Return(Err("Io", <<"read">>))
       \/ \E read_size \in ReadSizes(frame.file_size, frame.pos) :
             LET slice == IF read_size = 0 THEN <<>>
                          ELSE Bytes(frame.pos, frame.pos + read_size)
                 digest == Md4_result(Md4_input(<<>>, slice))
                 ctx_f == Md4_input(frame.ctx_f, digest)
                 last == frame.i + 1 = frame.blocks
                 md4_digest == IF last /\ frame.blocks > 1
                               THEN Md4_result(ctx_f) ELSE digest
             IN  /\ frame' = [frame EXCEPT !.i = @ + 1,
                                           !.pos = @ + read_size,
                                           !.ctx_f = ctx_f,
                                           !.md4_digest = md4_digest,
                                           !.reads = Append(@, read_size)]
                 /\ pc' = IF last THEN "idle" ELSE "read"
                 /\ result' = IF last
                              THEN Ok(Ed2kHash(md4_digest, frame.file_size))
                              ELSE Running
    /\ UNCHANGED <<session, last_send, cache, now, wire, calls>>
    /\ UNCHANGED driver

NextEd2k ==
    \/ \E file_size \in FileSizes : from_file(file_size)
    \/ from_file_read

SpecEd2k == Init /\ [][NextEd2k]_vars

(***************************************************************************)
(* The ingest driver (src/src/bin/anisort.rs): main logs in and hands each *)
(* file of the batch, hashed, to search on a thread of the pool.  A job is *)
(* one file: "hashed" before its search, "calling" while it holds the      *)
(* guard of the mutex, "done" after it printed or moved, "panicked" when   *)
(* its thread unwound.  A path is the sequence of its components.          *)
(***************************************************************************)
\* The account in config.ini.
ConfigUser == <<"foo">>

ConfigPassword == <<"bar">>

\* config.target.
TargetDir == <<"A", "n", "i", "m", "e">>

\* The files on the command line.
Jobs == {1, 2}

InputFile(j) == << <<"i", "n">>, <<ToString(j), ".", "m", "k", "v">> >>

\* What hash() made of a file: the fingerprint, or the error of from_file.
HashResults == { Ok(h) : h \in Hashes } \cup { Err("Io", <<"open">>) }

Batches == [Jobs -> HashResults]

\* A code-220 reply with all its fields and no series name.
FileNoSeriesReply ==
    <<"2", "2", "0", " ", "F", "I", "L", "E", "\n", "1", "|", "2", "|",
      "3", "|", "4", "|", "f", ".", "m", "k", "v", "|", "2", "5", "|", "2",
      "5", "|", "2", "0", "1", "7", "|", "T", "V", "|", "|",
      "|", "|", "l", "w", "a", "|", "0", "1", "|", "A", "|", "B", "|", "G",
      "|", "g", "|", "9">>

\* What the server answers the driver with.
SortDatagrams ==
    { MockReply, FileFoundReply, FileBadNumberReply, FileTruncatedReply,
      FileNoSeriesReply, NoSuchFileReply }

\* A Mutex that hands out its guard while another one is alive.
mutex_available_always(m) == TRUE

\* Mutex::lock returns when no guard is alive.
mutex_available(m) == ~m.locked

\* clean: ' ' becomes '_' and '/' becomes '|'.
clean(raw) ==
    [i \in 1..Len(raw) |->
        IF raw[i] = " " THEN "_" ELSE IF raw[i] = "/" THEN "|" ELSE raw[i]]

\* Path::extension of the last component: what follows its last '.'.
RECURSIVE extension(_)
extension(name) ==
    IF name = <<>> THEN <<>>
    ELSE IF name[Len(name)] = "." THEN <<>>
    ELSE extension(SubSeq(name, 1, Len(name) - 1)) \o <<name[Len(name)]>>

has_extension(name) ==
    \E i \in 2..Len(name) : name[i] = "."

RECURSIVE Zeros(_)
Zeros(n) == IF n <= 0 THEN <<>> ELSE <<"0">> \o Zeros(n - 1)

\* build_path: the path the file is to have, or the panic of an assert!.
build_path(file, filename, target_dir) ==
    LET series == file.series_romaji
        padding == IF parse_u32(file.ep_number).tag = "Ok"
                   THEN Zeros(Len(file.total_eps) - Len(file.ep_number))
                   ELSE <<>>
        name == filename[Len(filename)]
        new_name == series \o <<" ", "-", " ">> \o padding \o file.ep_number
                        \o <<" ">> \o file.ep_name \o <<".">> \o extension(name)
    IN  IF series = <<>> THEN Panic("assertion failed: series != \"\"")
        ELSE IF file.ep_name = <<>>
             THEN Panic("assertion failed: ep_name != \"\"")
        ELSE IF ~has_extension(name) THEN Panic("Extension")
        ELSE Ok(<<target_dir, clean(series), clean(new_name)>>)

\* move_file: the file system after it.  A rename that fails is made up
\* for by the copy and the delete, with the same outcome.
move_file(noop, d, from, to) ==
    IF noop \/ from = to THEN d
    ELSE [files |-> (d.files \ {from}) \cup {to},
          dirs  |-> d.dirs \cup {SubSeq(to, 1, Len(to) - 1)}]

NewJob(hash) ==
    [hash |-> hash, pc |-> "hashed", outcome |-> NoResult,
     sent |-> {}, got |-> {}]

\* main: the flag, the login, and the batch with its fingerprints.
main(noop, batch) ==
    /\ jobs = <<>>
    /\ calls = <<>>
    /\ login(ConfigUser, ConfigPassword)
    /\ mode_noop' = noop
    /\ jobs' = [j \in Jobs |-> NewJob(batch[j])]
    /\ disk' = [files |-> { InputFile(j) : j \in Jobs }, dirs |-> {}]
    /\ UNCHANGED mutex

\* The datagram the step put on the socket, if any.
NewlySent == IF Len(wire') > Len(wire) THEN {Len(wire')} ELSE {}

\* search up to the return of file_from_hash or its first wait: a file
\* without a fingerprint is reported; the others lock the mutex, which
\* panics when the mutex is poisoned, and call file_from_hash.
search(j) ==
    /\ j \in DOMAIN jobs
    /\ jobs[j].pc = "hashed"
    /\ IF jobs[j].hash.tag = "Err"
       THEN /\ jobs' = [jobs EXCEPT ![j].pc = "done",
                                    ![j].outcome = jobs[j].hash]
            /\ UNCHANGED <<client, mutex, disk, mode_noop>>
       ELSE /\ mutex_available(mutex)
            /\ IF mutex.poisoned
               THEN /\ jobs' = [jobs EXCEPT ![j].pc = "panicked",
                                            ![j].outcome = Panic("lock")]
                    /\ UNCHANGED <<client, mutex, disk, mode_noop>>
               ELSE /\ file_from_hash(jobs[j].hash.val)
                    /\ mutex' = [mutex EXCEPT !.locked = TRUE,
                                              !.order = Append(@, j)]
                    /\ jobs' = [jobs EXCEPT ![j].pc = "calling",
                                            ![j].sent = @ \cup NewlySent]
                    /\ UNCHANGED <<disk, mode_noop>>

\* The thread that waits in socket.recv gets datagram d.
search_recv(d) ==
    /\ Recv(d)
    /\ \E j \in DOMAIN jobs :
          /\ jobs[j].pc = "calling"
          /\ jobs' = [jobs EXCEPT ![j].got = @ \cup {Len(wire)},
                                  ![j].sent = @ \cup NewlySent]
    /\ UNCHANGED <<mutex, disk, mode_noop>>

search_recv_error ==
    /\ RecvError
    /\ UNCHANGED driver

\* search from the return of file_from_hash on: the guard is dropped (the
\* mutex is poisoned when the call unwinds), then the file is moved or the
\* error printed.
search_return(j) ==
    /\ j \in DOMAIN jobs
    /\ jobs[j].pc = "calling"
    /\ pc \in {"idle", "panicked"}
    /\ mutex' = [mutex EXCEPT !.locked = FALSE,
                              !.poisoned = @ \/ pc = "panicked"]
    /\ LET new_path == IF result.tag = "Ok"
                       THEN build_path(result.val, InputFile(j), TargetDir)
                       ELSE result
       IN  /\ jobs' = [jobs EXCEPT
                          ![j].pc = IF new_path.tag = "Panic" THEN "panicked"
                                    ELSE "done",
                          ![j].outcome = new_path]
           /\ disk' = IF new_path.tag = "Ok"
                      THEN move_file(mode_noop, disk, InputFile(j),
                                     new_path.val)
                      ELSE disk
    /\ UNCHANGED <<client, mode_noop>>

NextSort ==
    \/ \E noop \in BOOLEAN : \E batch \in Batches : main(noop, batch)
    \/ \E j \in Jobs : search(j)
    \/ \E d \in SortDatagrams : search_recv(d)
    \/ search_recv_error
    \/ \E j \in Jobs : search_return(j)

SpecSort == Init /\ [][NextSort]_vars

(***************************************************************************)
(* The driver with a server that answers every request it gets with a      *)
(* well-formed reply to that request, and threads that are scheduled: a    *)
(* job that can go on does, and a reply that is due arrives.               *)
(***************************************************************************)
AnswersTo(msg) ==
    IF Len(msg) > 0 /\ msg[1] = "AUTH user=" THEN {MockReply}
    ELSE IF Len(msg) > 0 /\ msg[1] = "FILE size="
    THEN {FileFoundReply, NoSuchFileReply, FileNoSeriesReply}
    ELSE {}

search_answered ==
    /\ pc = "recv"
    /\ \E d \in AnswersTo(wire[Len(wire)].msg) : search_recv(d)

NextAnswered ==
    \/ \E noop \in BOOLEAN : \E batch \in Batches : main(noop, batch)
    \/ \E j \in Jobs : search(j)
    \/ search_answered
    \/ \E j \in Jobs : search_return(j)

FairAnswered ==
    /\ \A j \in Jobs : WF_vars(search(j)) /\ WF_vars(search_return(j))
    /\ WF_vars(search_answered)

SpecAnswered == Init /\ [][NextAnswered]_vars /\ FairAnswered

Spec == Init /\ [][Next]_vars

TypeOK ==
    /\ session.tag \in {"Disconnected", "Pending", "Connected"}
    /\ last_send \in Instants
    /\ now \in Instants
    /\ last_send <= now
    /\ pc \in {"idle", "recv", "read", "panicked"}
    /\ Len(calls) <= MaxCalls

(***************************************************************************)
(* What the record of calls and datagrams says.                            *)
(***************************************************************************)
IsAuth(m) == Len(m) > 0 /\ m[1] = "AUTH user="

IsFile(m) == Len(m) > 0 /\ m[1] = "FILE size="

IsLogout(m) == Len(m) > 0 /\ m[1] = "LOGOUT s="

\* The step puts a datagram on the socket.
Sends == Len(wire') = Len(wire) + 1

Sent == wire'[Len(wire')].msg

\* Datagram d is a code-200 reply whose first word is token.
AuthGrants(d, token) ==
    /\ d # NoReply
    /\ LET r == parse_reply(d, Len(d))
       IN  /\ r.tag = "Ok"
           /\ r.val.code = 200
           /\ Split(r.val.data, " ")[1] = token

\* The exchange e is an AUTH exchange that the client accepted.
AuthAccepted(e) ==
    /\ IsAuth(e.msg)
    /\ e.reply # NoReply
    /\ LET r == parse_reply(e.reply, Len(e.reply))
       IN  r.tag = "Ok" /\ validate_auth_command(r.val).tag = "Ok"

(***************************************************************************)
(* C1.  Whenever send_wait_reply sets last_send (a transmission), the new  *)
(* instant is at least ratelimit after the previous value of last_send,    *)
(* which is the instant of the previous transmission (AUTH, FILE or        *)
(* LOGOUT) or, for the first one, of the construction of the client.       *)
(***************************************************************************)
C1_RateLimit ==
    [][(last_send' # last_send \/ Sends)
          => last_send' - last_send >= ratelimit]_vars

C1_Witness ==
    /\ Len(wire) >= 2
    /\ IsAuth(wire[1].msg)
    /\ IsFile(wire[2].msg)
    /\ last_send >= 2 * ratelimit

(***************************************************************************)
(* C2.  In every state in which a FILE datagram is on the socket, waiting  *)
(* for its reply, the session is Connected and its token is the first word *)
(* of a code-200 reply to an AUTH datagram sent before.                    *)
(***************************************************************************)
C2_FileOnlyWhenConnected ==
    (pc = "recv" /\ IsFile(wire[Len(wire)].msg)) =>
        /\ session.tag = "Connected"
        /\ \E i \in 1..(Len(wire) - 1) :
              /\ IsAuth(wire[i].msg)
              /\ AuthGrants(wire[i].reply, session.token)

C2_Witness ==
    /\ pc = "recv"
    /\ IsFile(wire[Len(wire)].msg)
    /\ LastCall.session0.tag = "Connected"

(***************************************************************************)
(* C3.  The session becomes Connected only from Pending, in the step that  *)
(* receives a code-200 reply to AUTH, with the token of that reply; an     *)
(* AUTH datagram is sent only while the session is Pending; a FILE         *)
(* datagram carries the token of the session; a Connected session changes  *)
(* only in a login or a logout; and the exchanges that follow a login, up  *)
(* to the next login or logout, hold at most one accepted AUTH exchange.   *)
(***************************************************************************)
C3_Step ==
    /\ (session.tag # "Connected" /\ session'.tag = "Connected") =>
          /\ session.tag = "Pending"
          /\ pc = "recv"
          /\ IsAuth(wire[Len(wire)].msg)
          /\ AuthGrants(wire'[Len(wire)].reply, session'.token)
    /\ (Sends /\ IsAuth(Sent)) =>
          /\ session.tag = "Pending"
          /\ session' = session
    /\ (Sends /\ IsFile(Sent)) =>
          /\ session'.tag = "Connected"
          /\ session.tag = "Connected" => session' = session
          /\ Sent = format_file_hash_str(LastCall'.arg[1])
                        \o <<"&s=">> \o session'.token
    /\ (session.tag = "Connected" /\ session' # session) =>
          LastCall'.op \in {"login", "logout"}

C3_AuthsAfter(i) ==
    LET later == { j \in (i + 1)..Len(calls) :
                       calls[j].op \in {"login", "logout"} }
        last  == IF later = {} THEN Len(wire)
                 ELSE calls[CHOOSE j \in later :
                                \A k \in later : j <= k].wire0
    IN  { k \in (calls[i].wire0 + 1)..last : AuthAccepted(wire[k]) }

C3_AtMostOneAuth ==
    \A i \in 1..Len(calls) :
        calls[i].op = "login" => Cardinality(C3_AuthsAfter(i)) <= 1

C3_SessionOnce == []C3_AtMostOneAuth /\ [][C3_Step]_vars

C3_Witness ==
    /\ Len(wire) = 3
    /\ AuthAccepted(wire[1])
    /\ IsFile(wire[2].msg)
    /\ IsFile(wire[3].msg)
    /\ session.tag = "Connected"
    /\ LastCall.session0 = session

(***************************************************************************)
(* C4.  A login(user, pwd) step puts no datagram on the socket, leaves     *)
(* last_send and the cache as they are, returns Ok and leaves the       *)
(* session Pending with user and pwd, whatever the session was: a token    *)
(* held before is gone and no LOGOUT was sent for it.                      *)
(***************************************************************************)
C4_Login ==
    [][(calls' # calls /\ LastCall'.op = "login") =>
          /\ wire' = wire
          /\ last_send' = last_send
          /\ cache' = cache
          /\ pc' = "idle"
          /\ result' = [tag |-> "Ok", val |-> <<>>]
          /\ session' = [tag |-> "Pending", user |-> LastCall'.arg[1],
                         pwd |-> LastCall'.arg[2]]]_vars

C4_Witness ==
    /\ Len(calls) > 0
    /\ LastCall.op = "login"
    /\ LastCall.session0.tag = "Connected"
    /\ session.tag = "Pending"
    /\ \A i \in 1..Len(wire) : ~IsLogout(wire[i].msg)

(***************************************************************************)
(* C5.  On a fresh client whose every reply was the mock server's, once    *)
(* login("foo", "bar") and then logout() have returned, logout returned Ok *)
(* and exactly two datagrams were sent and answered: an AUTH, then a       *)
(* LOGOUT.                                                                 *)
(***************************************************************************)
LoginLogoutDone ==
    /\ Len(calls) = 2
    /\ calls[1].op = "login"
    /\ calls[1].arg = << <<"foo">>, <<"bar">> >>
    /\ calls[2].op = "logout"
    /\ pc = "idle"
    /\ \A i \in 1..Len(wire) : wire[i].reply = MockReply

C5_LoginLogoutExchanges ==
    LoginLogoutDone =>
        /\ result.tag = "Ok"
        /\ Len(wire) = 2
        /\ IsAuth(wire[1].msg)
        /\ IsLogout(wire[2].msg)

(***************************************************************************)
(* C6.  On a fresh client, once login() and then logout() have returned,   *)
(* at least two rate-limit intervals (8 seconds) have passed since the     *)
(* construction of the client.                                             *)
(***************************************************************************)
C6_LoginLogoutTakesTwoIntervals ==
    (LoginLogoutDone /\ result.tag = "Ok") => now >= 2 * ratelimit

(***************************************************************************)
(* C7.  Every key of the cache is the text of a formatted FILE command and *)
(* holds no "&s=" part.  Every FILE datagram sent is such a key followed   *)
(* by "&s=" and a token, the token of the session while it waits for its   *)
(* reply; a reply that parses is stored under the key alone.               *)
(***************************************************************************)
C7_KeyOf(m) ==
    CHOOSE k \in FileQueries : Len(m) > Len(k) /\ SubSeq(m, 1, Len(k)) = k

C7_CacheKeyWithoutToken ==
    /\ \A k \in DOMAIN cache :
          /\ \E h \in Hashes : k = format_file_hash_str(h)
          /\ \A i \in 1..Len(k) : k[i] # "&s="
    /\ \A i \in 1..Len(wire) :
          IsFile(wire[i].msg) =>
             /\ \E k \in FileQueries :
                   /\ Len(wire[i].msg) > Len(k)
                   /\ SubSeq(wire[i].msg, 1, Len(k)) = k
                   /\ wire[i].msg[Len(k) + 1] = "&s="
             /\ LET k == C7_KeyOf(wire[i].msg)
                    r == parse_reply(wire[i].reply, Len(wire[i].reply))
                IN  r.tag = "Ok" => (k \in DOMAIN cache /\ cache[k] = r.val)
    /\ (pc = "recv" /\ IsFile(wire[Len(wire)].msg)) =>
          /\ frame.message = format_file_hash_str(LastCall.arg[1])
          /\ wire[Len(wire)].msg
                = frame.message \o <<"&s=">> \o session.token

C7_Witness ==
    /\ pc = "idle"
    /\ Len(wire) > 0
    /\ IsFile(wire[Len(wire)].msg)
    /\ parse_reply(wire[Len(wire)].reply, Len(wire[Len(wire)].reply)).tag = "Ok"
    /\ C7_KeyOf(wire[Len(wire)].msg) \in DOMAIN cache

(***************************************************************************)
(* C8.  A file_from_hash whose command has an entry in the cache returns   *)
(* in one step the decoding of the stored reply: no datagram is sent and   *)
(* session, last_send and cache stay as they are, whatever the session.  A *)
(* FILE datagram is sent only for a command that has no entry, and when    *)
(* the call that sent it goes on after a reply that parses, the reply is   *)
(* in the cache under that command.                                        *)
(***************************************************************************)
C8_Step ==
    /\ (calls' # calls /\ LastCall'.op = "file") =>
          LET key == format_file_hash_str(LastCall'.arg[1])
          IN  key \in DOMAIN cache =>
                 /\ wire' = wire
                 /\ session' = session
                 /\ last_send' = last_send
                 /\ cache' = cache
                 /\ pc' # "recv"
                 /\ result' = file_from_reply(cache[key])
    /\ (Sends /\ IsFile(Sent)) =>
          format_file_hash_str(LastCall'.arg[1]) \notin DOMAIN cache
    /\ (pc = "recv" /\ IsFile(wire[Len(wire)].msg) /\ pc' # "recv") =>
          LET d == wire'[Len(wire)].reply
              r == parse_reply(d, Len(d))
              key == format_file_hash_str(LastCall.arg[1])
          IN  r.tag = "Ok" => (key \in DOMAIN cache' /\ cache'[key] = r.val)

C8_CachedCall == [][C8_Step]_vars

C8_Witness ==
    /\ pc = "idle"
    /\ Len(calls) > 0
    /\ LastCall.op = "file"
    /\ LastCall.session0 = Disconnected
    /\ LastCall.wire0 = Len(wire)
    /\ result.tag = "Ok"

(***************************************************************************)
(* C9.  As claimed: whenever a get(k) directly follows a put(k, v), the    *)
(* get returns v, whatever rows the cache held before.                     *)
(***************************************************************************)
GetFollowsPut(i) ==
    /\ calls[i - 1].op = "put"
    /\ calls[i].op = "get"
    /\ calls[i].arg[1] = calls[i - 1].arg[1]

C9_WriteThrough ==
    \A i \in 2..Len(calls) :
        GetFollowsPut(i) =>
            calls[i].ret = [tag |-> "Ok", val |-> calls[i - 1].arg[2]]

(***************************************************************************)
(* C9, amended.  A put(k, v) on a cache that has no entry for k returns Ok *)
(* and the very next get(k) returns v; a put(k, v) on a cache that has an  *)
(* entry for k returns an error and leaves the rows as they are, so that   *)
(* the very next get(k) returns the reply that was there before.           *)
(***************************************************************************)
C9_PutStep ==
    (calls' # calls /\ LastCall'.op = "put") =>
        LET k == LastCall'.arg[1]
            v == LastCall'.arg[2]
        IN  IF k \in DOMAIN cache
            THEN /\ LastCall'.ret.tag = "Err"
                 /\ cache' = cache
            ELSE /\ LastCall'.ret.tag = "Ok"
                 /\ \A q \in DOMAIN cache : q \in DOMAIN cache' /\ cache'[q] = cache[q]

C9_GetAfterPut ==
    \A i \in 2..Len(calls) :
        GetFollowsPut(i) =>
            /\ calls[i].ret.tag = "Ok"
            /\ calls[i - 1].ret.tag = "Ok" =>
                  calls[i].ret.val = calls[i - 1].arg[2]
            /\ calls[i].ret.val = cache[calls[i].arg[1]]

C9_WriteThroughWhenNew == []C9_GetAfterPut /\ [][C9_PutStep]_vars

\* put(k, v1) accepted, put(k, v2) refused, get(k) returns v1.
C9_Witness ==
    /\ Len(calls) = 3
    /\ GetFollowsPut(3)
    /\ calls[1].op = "put"
    /\ calls[1].arg[1] = calls[2].arg[1]
    /\ calls[1].arg[2] # calls[2].arg[2]
    /\ calls[1].ret.tag = "Ok"
    /\ calls[2].ret.tag = "Err"
    /\ calls[3].ret = [tag |-> "Ok", val |-> calls[1].arg[2]]

(***************************************************************************)
(* C10.  In a logout() entered with the session Connected with token t,    *)
(* the datagrams sent by the call are at most one, and it is "LOGOUT s="   *)
(* followed by t; while the call waits, that datagram is out, unanswered,  *)
(* and the session is still Connected; when the call has returned Ok, the  *)
(* datagram was sent and answered and the session is Disconnected.         *)
(***************************************************************************)
LogoutOfConnected ==
    /\ Len(calls) > 0
    /\ LastCall.op = "logout"
    /\ LastCall.session0.tag = "Connected"

C10_Logout ==
    LogoutOfConnected =>
        LET sent == SubSeq(wire, LastCall.wire0 + 1, Len(wire))
        IN  /\ Len(sent) <= 1
            /\ Len(sent) = 1 =>
                  sent[1].msg = <<"LOGOUT s=">> \o LastCall.session0.token
            /\ pc = "recv" =>
                  /\ Len(sent) = 1
                  /\ sent[1].reply = NoReply
                  /\ session = LastCall.session0
            /\ (pc = "idle" /\ result.tag = "Ok") =>
                  /\ Len(sent) = 1
                  /\ sent[1].reply # NoReply
                  /\ session = [tag |-> "Disconnected"]

C10_Witness ==
    /\ LogoutOfConnected
    /\ pc = "idle"
    /\ result.tag = "Ok"
    /\ Len(wire) = 3

(***************************************************************************)
(* C11.  A logout() entered with the session Pending or Disconnected is    *)
(* one step that puts no datagram on the socket, takes no time, leaves     *)
(* last_send and the cache as they are, returns Ok and leaves the session  *)
(* Disconnected; so a logout() that follows it changes nothing but the     *)
(* record of calls.                                                        *)
(***************************************************************************)
C11_Step ==
    (calls' # calls /\ LastCall'.op = "logout"
        /\ session.tag \in {"Pending", "Disconnected"}) =>
        /\ wire' = wire
        /\ now' = now
        /\ last_send' = last_send
        /\ cache' = cache
        /\ pc' = "idle"
        /\ result' = [tag |-> "Ok", val |-> <<>>]
        /\ session' = [tag |-> "Disconnected"]

C11_LogoutWithoutSession == [][C11_Step]_vars

C11_Witness ==
    /\ Len(calls) = 3
    /\ calls[1].op = "login"
    /\ calls[2].op = "logout"
    /\ calls[2].session0.tag = "Pending"
    /\ calls[3].op = "logout"
    /\ calls[3].session0.tag = "Disconnected"
    /\ session.tag = "Disconnected"
    /\ wire = <<>>
    /\ now = 0

(***************************************************************************)
(* C12.  The outcome of file_from_hash is decided by the code of the reply *)
(* it decodes, the stored one on a cache hit and the received one          *)
(* otherwise: 320 gives the error NoSuchFile, 322 the error "Found         *)
(* multiple files", any code other than 220, 320 and 322 the error         *)
(* "Unexpected code" with that code, and 220 with a second line of at      *)
(* least 18 fields whose numeric fields are numbers gives Ok with the      *)
(* record of those fields.                                                 *)
(***************************************************************************)
IsNumber(f) ==
    LET digits == IF Len(f) > 0 /\ f[1] = "+" THEN Tail(f) ELSE f
        num    == StripZeros(digits)
    IN  /\ digits # <<>>
        /\ AllDigits(digits)
        /\ \/ Len(num) < Len(U32Max)
           \/ Len(num) = Len(U32Max) /\ NumeralLeq(num, U32Max)

NumericFields == {1, 2, 3, 4, 6, 7}

HasAllFields(r) ==
    /\ Len(Split(r.data, "\n")) >= 2
    /\ Len(Split(Split(r.data, "\n")[2], "|")) >= FileFieldCount

WellFormedFile(r) ==
    /\ HasAllFields(r)
    /\ \A n \in NumericFields : IsNumber(Split(Split(r.data, "\n")[2], "|")[n])

C12_Outcome(r, res) ==
    /\ r.code = 320 => res = [tag |-> "Err", kind |-> "NoSuchFile", info |-> <<>>]
    /\ r.code = 322 =>
          res = [tag |-> "Err", kind |-> "Error",
                 info |-> <<"Found multiple files. Panic!">>]
    /\ r.code \notin {220, 320, 322} =>
          res = [tag |-> "Err", kind |-> "Error",
                 info |-> <<"Unexpected code", r.code>>]
    /\ (r.code = 220 /\ WellFormedFile(r)) =>
          LET fields == Split(Split(r.data, "\n")[2], "|")
          IN  /\ res.tag = "Ok"
              /\ \A n \in NumericFields : IsNumber(fields[n])
              /\ res.val.fid = StripZeros(fields[1])
              /\ res.val.aid = StripZeros(fields[2])
              /\ res.val.eid = StripZeros(fields[3])
              /\ res.val.gid = StripZeros(fields[4])
              /\ res.val.filename = fields[5]
              /\ res.val.total_eps = StripZeros(fields[6])
              /\ res.val.highest_ep = StripZeros(fields[7])
              /\ res.val.year = fields[8]
              /\ res.val.typ = fields[9]
              /\ res.val.series_romaji = fields[10]
              /\ res.val.series_english = fields[11]
              /\ res.val.series_other = fields[12]
              /\ res.val.series_short = fields[13]
              /\ res.val.ep_number = fields[14]
              /\ res.val.ep_name = fields[15]
              /\ res.val.ep_romaji = fields[16]
              /\ res.val.group_name = fields[17]
              /\ res.val.group_short = fields[18]

C12_Step ==
    /\ (calls' # calls /\ LastCall'.op = "file"
           /\ format_file_hash_str(LastCall'.arg[1]) \in DOMAIN cache) =>
          C12_Outcome(cache[format_file_hash_str(LastCall'.arg[1])], result')
    /\ (pc = "recv" /\ IsFile(wire[Len(wire)].msg) /\ pc' # "recv") =>
          LET d == wire'[Len(wire)].reply
              r == parse_reply(d, Len(d))
          IN  r.tag = "Ok" => C12_Outcome(r.val, result')

DecodedReply ==
    IF LastCall.wire0 = Len(wire)
    THEN Cache_get(cache, format_file_hash_str(LastCall.arg[1]))
    ELSE IF IsFile(wire[Len(wire)].msg)
         THEN parse_reply(wire[Len(wire)].reply, Len(wire[Len(wire)].reply))
         ELSE [tag |-> "Err"]

FileCallOver ==
    /\ Len(calls) > 0
    /\ LastCall.op = "file"
    /\ pc # "recv"
    /\ DecodedReply.tag = "Ok"

C13_BadNumberIsError ==
    (/\ FileCallOver
     /\ DecodedReply.val.code = 220
     /\ HasAllFields(DecodedReply.val)
     /\ ~WellFormedFile(DecodedReply.val)) =>
        /\ pc = "idle"
        /\ result.tag = "Err"

(***************************************************************************)
(* C16.  As claimed: a file_from_hash entered with the session             *)
(* Disconnected and no entry for its command in the cache sends no AUTH    *)
(* and does not abort; it transmits the FILE command followed by "&s=" and *)
(* nothing, or returns the error of a failed send.                         *)
(***************************************************************************)
FileCallWithoutSession ==
    /\ calls' # calls
    /\ LastCall'.op = "file"
    /\ session = [tag |-> "Disconnected"]
    /\ format_file_hash_str(LastCall'.arg[1]) \notin DOMAIN cache

C16_DisconnectedSendsEmptyToken ==
    [][FileCallWithoutSession =>
          /\ pc' # "panicked"
          /\ \/ /\ Sends
                /\ Sent = format_file_hash_str(LastCall'.arg[1]) \o <<"&s=">>
             \/ /\ wire' = wire
                /\ result'.tag = "Err"]_vars

(***************************************************************************)
(* C16, amended.  A file_from_hash entered with the session Disconnected   *)
(* and no entry for its command in the cache sends nothing, neither AUTH   *)
(* nor FILE, and aborts at the unreachable!() of assert_session; session,  *)
(* last_send and cache are as they were.                                   *)
(***************************************************************************)
C16_DisconnectedAborts ==
    [][FileCallWithoutSession =>
          /\ wire' = wire
          /\ pc' = "panicked"
          /\ result' = [tag |-> "Panic", msg |-> "unreachable"]
          /\ session' = session
          /\ last_send' = last_send
          /\ now' = now
          /\ cache' = cache]_vars

C16_Witness ==
    /\ pc = "panicked"
    /\ LastCall.op = "file"
    /\ LastCall.session0 = [tag |-> "Disconnected"]
    /\ result = [tag |-> "Panic", msg |-> "unreachable"]
    /\ wire = <<>>

(***************************************************************************)
(* C14.  As claimed: parse_reply on a datagram of len bytes returns the    *)
(* static error "Reply less than 5 chars" when len < 5; otherwise, when    *)
(* the first three bytes are decimal digits, it returns the reply whose    *)
(* code is their decimal value, between 0 and 999, and whose data is the   *)
(* bytes from the fifth on; and otherwise it returns a parse error.        *)
(***************************************************************************)
C14_ParseReply ==
    frame.stage = "parse_reply" =>
        LET d == frame.message
        IN  IF Len(d) < 5
            THEN result = [tag |-> "Err", kind |-> "StaticError",
                           info |-> <<"Reply less than 5 chars">>]
            ELSE IF \A i \in 1..3 : d[i] \in Digits
                 THEN /\ result.tag = "Ok"
                      /\ result.val.code
                            = 100 * DigitVal(d[1]) + 10 * DigitVal(d[2])
                                 + DigitVal(d[3])
                      /\ result.val.code \in 0..999
                      /\ Len(result.val.data) = Len(d) - 4
                      /\ \A i \in 5..Len(d) :
                            result.val.data[i - 4]
                               = IF d[i] = InvalidByte THEN Replacement
                                 ELSE d[i]
                 ELSE /\ result.tag = "Err"
                      /\ result.kind \in {"Utf8Error", "ParseIntError"}

(***************************************************************************)
(* C15.  validate_auth_command returns a token exactly when the code is    *)
(* 200 and the payload is a word without a space followed by               *)
(* " LOGIN ACCEPTED\n", and the token is that word; assert_session then    *)
(* makes the session Connected with it.  A code other than 200 gives       *)
(* ErrorCode with the code and the payload, everything else gives an       *)
(* error, and after an error the session is not Connected.                 *)
(***************************************************************************)
LoginAcceptedSuffix ==
    <<" ", "L", "O", "G", "I", "N", " ",
      "A", "C", "C", "E", "P", "T", "E", "D", "\n">>

C15_TokenLen(data) == Len(data) - Len(LoginAcceptedSuffix)

C15_Accepted(data) ==
    /\ C15_TokenLen(data) >= 0
    /\ SubSeq(data, C15_TokenLen(data) + 1, Len(data)) = LoginAcceptedSuffix
    /\ \A i \in 1..C15_TokenLen(data) : data[i] # " "

C15_ValidateAuth ==
    frame.stage = "validate_auth_command" =>
        LET r == frame.message
            token == SubSeq(r.data, 1, C15_TokenLen(r.data))
        IN  IF r.code = 200 /\ C15_Accepted(r.data)
            THEN /\ result = [tag |-> "Ok", val |-> token]
                 /\ session = [tag |-> "Connected", token |-> token]
            ELSE /\ result.tag = "Err"
                 /\ r.code # 200 =>
                       result = [tag |-> "Err", kind |-> "ErrorCode",
                                 info |-> <<r.code, r.data>>]
                 /\ r.code = 200 => result.kind = "Error"
                 /\ session.tag = "Pending"

\* A reply with three words, the last one not "ACCEPTED\n", was refused.
C15_Witness ==
    /\ frame.stage = "validate_auth_command"
    /\ frame.message.code = 200
    /\ frame.message.data
          = OtherToken \o <<" ", "L", "O", "G", "I", "N", " ",
                            "R", "E", "J", "E", "C", "T", "E", "D", "\n">>
    /\ result.tag = "Err"
    /\ session.tag = "Pending"

(***************************************************************************)
(* C20.  When from_file has returned Ok for a file of size bytes and each  *)
(* of its reads returned all the bytes its block holds: the reported size  *)
(* is size; for 1 <= size <= BLOCKSIZE the digest is MD4 of the bytes      *)
(* 0..size of the file; for size > BLOCKSIZE it is MD4 of the digests, in  *)
(* order, of the ceil(size / BLOCKSIZE) blocks of the file, the last block *)
(* ending at size, with no empty block after a file that is a multiple of  *)
(* BLOCKSIZE.                                                              *)
(***************************************************************************)
C20_BlockCount(size) == (size + BLOCKSIZE - 1) \div BLOCKSIZE

C20_Block(size, k) ==
    [from |-> (k - 1) * BLOCKSIZE,
     to   |-> IF k * BLOCKSIZE < size THEN k * BLOCKSIZE ELSE size]

C20_FullReads ==
    \A k \in 1..Len(frame.reads) :
        frame.reads[k] = C20_Block(frame.file_size, k).to
                            - C20_Block(frame.file_size, k).from

C20_Hashed ==
    /\ frame.stage = "from_file"
    /\ pc = "idle"
    /\ result.tag = "Ok"
    /\ C20_FullReads

C20_Fingerprint ==
    C20_Hashed =>
        LET size == frame.file_size
        IN  /\ result.val.size = size
            /\ (1 <= size /\ size <= BLOCKSIZE) =>
                  result.val.bin = [md4 |-> <<[from |-> 0, to |-> size]>>]
            /\ size > BLOCKSIZE =>
                  result.val.bin
                     = [md4 |-> [k \in 1..C20_BlockCount(size) |->
                                    [md4 |-> <<C20_Block(size, k)>>]]]

\* A file of two full blocks: two digests, no third.
C20_Witness ==
    /\ C20_Hashed
    /\ frame.file_size = 2 * BLOCKSIZE
    /\ Len(frame.reads) = 2
    /\ Len(result.val.bin.md4) = 2

(***************************************************************************)
(* C17.  In the driver, at most one job is inside file_from_hash, and the  *)
(* mutex is locked exactly while one is; a request that waits for its      *)
(* reply was sent by that job.  Every datagram was sent by exactly one     *)
(* job, its reply was received by that job and by no other, and the        *)
(* datagrams of a job that locked the mutex earlier all precede those of a *)
(* job that locked it later.  A step that transmits is taken by the job    *)
(* inside the call: either nobody was inside before and no request was     *)
(* waiting, or the request that was waiting was its own and the step       *)
(* receives its reply.                                                     *)
(***************************************************************************)
Calling == { j \in DOMAIN jobs : jobs[j].pc = "calling" }

Position(j) == CHOOSE n \in 1..Len(mutex.order) : mutex.order[n] = j

C17_Inv ==
    /\ Cardinality(Calling) <= 1
    /\ mutex.locked <=> Calling # {}
    /\ pc = "recv" => \E j \in Calling : Len(wire) \in jobs[j].sent
    /\ \A i \in 1..Len(wire) :
          \E j \in DOMAIN jobs :
             /\ i \in jobs[j].sent
             /\ wire[i].reply # NoReply => i \in jobs[j].got
             /\ \A k \in DOMAIN jobs \ {j} :
                   i \notin jobs[k].sent /\ i \notin jobs[k].got
    /\ \A j \in DOMAIN jobs :
          /\ jobs[j].got \subseteq jobs[j].sent
          /\ jobs[j].sent # {} => \E n \in 1..Len(mutex.order) : mutex.order[n] = j
    /\ \A a \in DOMAIN jobs : \A b \in DOMAIN jobs :
          (jobs[a].sent # {} /\ jobs[b].sent # {} /\ Position(a) < Position(b)) =>
              \A x \in jobs[a].sent : \A y \in jobs[b].sent : x < y

C17_Step ==
    Sends =>
        \E j \in DOMAIN jobs :
            /\ jobs'[j].pc = "calling"
            /\ Len(wire') \in jobs'[j].sent
            /\ IF pc = "recv"
               THEN /\ Len(wire) \in jobs[j].sent
                    /\ Len(wire) \in jobs'[j].got
                    /\ wire'[Len(wire)].reply # NoReply
               ELSE /\ pc = "idle"
                    /\ Calling = {}
                    /\ ~mutex.locked

C17_OneRequestAtATime == []C17_Inv /\ [][C17_Step]_vars

\* Two jobs, each with its own FILE exchange, after the AUTH of the first.
C17_Witness ==
    /\ Len(wire) = 3
    /\ Len(mutex.order) = 2
    /\ jobs[mutex.order[1]].got = {1, 2}
    /\ jobs[mutex.order[2]].got = {3}
    /\ \A j \in DOMAIN jobs : jobs[j].pc = "done"

(***************************************************************************)
(* C18.  As claimed: in a run of the driver no thread unwinds and the      *)
(* mutex is never poisoned, whatever the server answers; so every job that *)
(* has a fingerprint can lock the mutex and look its file up, and every    *)
(* job that is over either moved its file or printed its error.            *)
(***************************************************************************)
C18_BatchSurvives ==
    /\ ~mutex.poisoned
    /\ \A j \in DOMAIN jobs :
          /\ jobs[j].pc # "panicked"
          /\ jobs[j].pc = "done" => jobs[j].outcome.tag \in {"Ok", "Err"}

(***************************************************************************)
(* C19.  As claimed: with -n no step of the driver changes the file system *)
(* or the rows of the cache database.                                      *)
(***************************************************************************)
C19_DryRunChangesNothing ==
    [][mode_noop => (disk' = disk /\ cache' = cache)]_vars

(***************************************************************************)
(* C21.  When from_file has returned Ok for a file of size 0, the digest   *)
(* is MD4 of the empty byte string, which is what the single-block rule    *)
(* gives for a block of no bytes, and the reported size is 0.              *)
(***************************************************************************)
C21_EmptyHashed ==
    /\ frame.stage = "from_file"
    /\ pc = "idle"
    /\ result.tag = "Ok"
    /\ frame.file_size = 0

C21_EmptyFileIsOneBlock ==
    C21_EmptyHashed =>
        /\ result.val.size = 0
        /\ result.val.bin # ZeroDigest
        /\ result.val.bin = Md4_result(Md4_input(<<>>, <<>>))
        /\ result.val.hex = Ed2kHash_hex(Md4_result(Md4_input(<<>>, <<>>)))

(***************************************************************************)
(* C22.  The value from_file returns for a file is a function of the       *)
(* file's contents: whatever its reads returned, a run that returned Ok    *)
(* for a file of size bytes returned the digest, hex and size that the     *)
(* run whose reads each filled the block returns for that file.            *)
(***************************************************************************)
C22_Hashed ==
    /\ frame.stage = "from_file"
    /\ pc = "idle"
    /\ result.tag = "Ok"

C22_OfContents(size) ==
    LET bin == IF size = 0 THEN ZeroDigest
               ELSE IF size <= BLOCKSIZE
               THEN [md4 |-> <<[from |-> 0, to |-> size]>>]
               ELSE [md4 |-> [k \in 1..C20_BlockCount(size) |->
                                 [md4 |-> <<C20_Block(size, k)>>]]]
    IN  [bin |-> bin, hex |-> [hex |-> bin], size |-> size]

C22_DependsOnContentsOnly ==
    C22_Hashed => result.val = C22_OfContents(frame.file_size)

(***************************************************************************)
(* C24, as stated.  When a logout() entered with the session Connected     *)
(* has sent LOGOUT and received a datagram in answer, whatever the         *)
(* datagram, the call has returned Ok and the session is Disconnected.     *)
(***************************************************************************)
LogoutAnswered ==
    /\ LogoutOfConnected
    /\ pc # "recv"
    /\ Len(wire) = LastCall.wire0 + 1
    /\ wire[Len(wire)].reply # NoReply

C24_LogoutReplyNotValidated ==
    LogoutAnswered =>
        /\ result = Ok(<<>>)
        /\ session = [tag |-> "Disconnected"]

(***************************************************************************)
(* C24, amended.  When a logout() entered with the session Connected has   *)
(* sent LOGOUT and received datagram d in answer: if parse_reply accepts   *)
(* d, whatever its code and payload, the call has returned Ok and the      *)
(* session is Disconnected; if parse_reply rejects d, the call has         *)
(* returned that error and the session is Connected with the token it had. *)
(***************************************************************************)
C24_LogoutReplyParsedOnly ==
    LogoutAnswered =>
        LET d == wire[Len(wire)].reply
            len == IF Len(d) < BufferSize THEN Len(d) ELSE BufferSize
            reply == parse_reply(d, len)
        IN  /\ pc = "idle"
            /\ reply.tag = "Ok" =>
                  /\ result = Ok(<<>>)
                  /\ session = [tag |-> "Disconnected"]
            /\ reply.tag = "Err" =>
                  /\ result = reply
                  /\ session = LastCall.session0

\* LOGOUT answered with "320 NO SUCH FILE": Ok and Disconnected.
C24_Witness ==
    /\ LogoutAnswered
    /\ wire[Len(wire)].reply = NoSuchFileReply
    /\ result = Ok(<<>>)
    /\ session = [tag |-> "Disconnected"]

(***************************************************************************)
(* C23.  Every FILE datagram that was answered with a datagram parse_reply *)
(* accepts has that reply, code and payload as parsed, in the cache under  *)
(* the command without the token, whatever the code and whether or not     *)
(* decoding it then failed or panicked; a row of the cache never changes   *)
(* or goes away; the step that stores a reply returns what decoding it     *)
(* gives, and a file_from_hash entered while the cache has a row for its   *)
(* command returns what decoding that row gives, in one step that sends    *)
(* nothing and changes neither session nor cache, whatever the session     *)
(* is; so after an accepted answer no FILE datagram for that command is    *)
(* sent again.                                                             *)
(***************************************************************************)
C23_Parsed(d) ==
    parse_reply(d, IF Len(d) < BufferSize THEN Len(d) ELSE BufferSize)

C23_Stored(i) ==
    /\ IsFile(wire[i].msg)
    /\ wire[i].reply # NoReply
    /\ C23_Parsed(wire[i].reply).tag = "Ok"

C23_Inv ==
    /\ \A i \in 1..Len(wire) :
          C23_Stored(i) =>
             /\ C7_KeyOf(wire[i].msg) \in DOMAIN cache
             /\ cache[C7_KeyOf(wire[i].msg)] = C23_Parsed(wire[i].reply).val
    /\ \A i, j \in 1..Len(wire) :
          (i < j /\ C23_Stored(i) /\ IsFile(wire[j].msg)) =>
             C7_KeyOf(wire[j].msg) # C7_KeyOf(wire[i].msg)

C23_Step ==
    /\ \A k \in DOMAIN cache : k \in DOMAIN cache' /\ cache'[k] = cache[k]
    /\ (pc = "recv" /\ IsFile(wire[Len(wire)].msg) /\ pc' # "recv"
           /\ wire'[Len(wire)].reply # NoReply
           /\ C23_Parsed(wire'[Len(wire)].reply).tag = "Ok") =>
          LET key == format_file_hash_str(LastCall.arg[1])
          IN  /\ key \notin DOMAIN cache
              /\ key \in DOMAIN cache'
              /\ result' = file_from_reply(cache'[key])
    /\ (calls' # calls /\ LastCall'.op = "file"
           /\ format_file_hash_str(LastCall'.arg[1]) \in DOMAIN cache) =>
          /\ wire' = wire
          /\ cache' = cache
          /\ session' = session
          /\ pc' # "recv"
          /\ result' = file_from_reply(
                           cache[format_file_hash_str(LastCall'.arg[1])])

C23_ErrorRepliesArePermanent == []C23_Inv /\ [][C23_Step]_vars

\* A FILE command answered "500 LOGIN FAILED", and the next call for the
\* same digest: the same error, from the cache.
C23_Witness ==
    /\ Len(calls) = 3
    /\ calls[2].op = "file"
    /\ calls[3].op = "file"
    /\ calls[3].arg = calls[2].arg
    /\ calls[3].wire0 = Len(wire)
    /\ pc = "idle"
    /\ Len(wire) = 2
    /\ C23_Stored(2)
    /\ wire[2].reply = LoginFailedReply
    /\ result = [tag |-> "Err", kind |-> "Error",
                 info |-> <<"Unexpected code", 500>>]

(***************************************************************************)
(* C26.  A step that ends the wait for the reply to AUTH in any way other  *)
(* than by receiving a datagram that parse_reply accepts with code 200     *)
(* and a payload of a token, " LOGIN" and " ACCEPTED\n" (socket.recv       *)
(* failed, or the datagram was not that) returns an error, puts no         *)
(* datagram on the socket, leaves the cache as it is and leaves the        *)
(* session Pending with the credentials it had.  The same holds of a       *)
(* file_from_hash whose AUTH datagram could not be sent.  A file_from_hash *)
(* entered on a cache miss with the session Pending sends nothing but the  *)
(* AUTH command of the session's credentials.                              *)
(***************************************************************************)
C26_Granted(d) ==
    /\ d # NoReply
    /\ LET r == C23_Parsed(d)
       IN  /\ r.tag = "Ok"
           /\ r.val.code = 200
           /\ C15_Accepted(r.val.data)

C26_AuthFailed ==
    /\ pc = "recv"
    /\ frame.stage = "auth"
    /\ pc' # "recv" \/ wire' # wire
    /\ ~C26_Granted(wire'[Len(wire)].reply)

C26_MissWhilePending ==
    /\ calls' # calls
    /\ LastCall'.op = "file"
    /\ format_file_hash_str(LastCall'.arg[1]) \notin DOMAIN cache
    /\ session.tag = "Pending"

C26_Step ==
    /\ C26_AuthFailed =>
          /\ pc' = "idle"
          /\ result'.tag = "Err"
          /\ Len(wire') = Len(wire)
          /\ cache' = cache
          /\ session' = session
          /\ session.tag = "Pending"
    /\ C26_MissWhilePending =>
          /\ cache' = cache
          /\ session' = session
          /\ IF Sends
             THEN /\ Sent = format_login_string(session.user, session.pwd)
                  /\ pc' = "recv"
             ELSE /\ wire' = wire
                  /\ pc' = "idle"
                  /\ result' = [tag |-> "Err", kind |-> "Io",
                                info |-> <<"send">>]

C26_FailedAuthKeepsPending == [][C26_Step]_vars

\* AUTH was answered "200 tok LOGIN REJECTED\n"; the next file_from_hash
\* has sent AUTH again and waits.
C26_Witness ==
    /\ Len(calls) = 3
    /\ calls[2].op = "file"
    /\ calls[3].op = "file"
    /\ Len(wire) = 2
    /\ IsAuth(wire[1].msg)
    /\ wire[1].reply = LoginRejectedReply
    /\ IsAuth(wire[2].msg)
    /\ wire[2].msg = wire[1].msg
    /\ pc = "recv"
    /\ session.tag = "Pending"
    /\ cache = <<>>

(***************************************************************************)
(* C27.  In the driver, whatever the batch (two files with the same        *)
(* fingerprint included) and the interleaving of its jobs: the step in     *)
(* which call invokes Cache::put (a reply to FILE that parse_reply         *)
(* accepted) finds no row for its key, adds the row and does not return    *)
(* the error of a failed INSERT; a row, once there, stays as it is, so a   *)
(* key is written at most once; and no job ends with the error of a        *)
(* failed INSERT.                                                          *)
(***************************************************************************)
C27_PutInvoked ==
    /\ pc = "recv"
    /\ frame.stage = "file"
    /\ wire' # wire
    /\ C23_Parsed(wire'[Len(wire)].reply).tag = "Ok"

C27_ConstraintViolation ==
    [tag |-> "Err", kind |-> "SqliteError", info |-> <<"ConstraintViolation">>]

C27_Step ==
    /\ C27_PutInvoked =>
          /\ frame.message \notin DOMAIN cache
          /\ frame.message \in DOMAIN cache'
          /\ cache'[frame.message] = C23_Parsed(wire'[Len(wire)].reply).val
          /\ result' # C27_ConstraintViolation
    /\ cache' # cache => C27_PutInvoked
    /\ \A k \in DOMAIN cache : k \in DOMAIN cache' /\ cache'[k] = cache[k]

C27_Inv ==
    \A j \in DOMAIN jobs : jobs[j].outcome # C27_ConstraintViolation

C27_PutOnlyNewKeys == []C27_Inv /\ [][C27_Step]_vars

\* Two files with the same fingerprint: the first lookup stored the reply,
\* the second one was answered by the cache.
C27_Witness ==
    /\ DOMAIN jobs = Jobs
    /\ jobs[1].hash = jobs[2].hash
    /\ jobs[1].hash.tag = "Ok"
    /\ \A j \in Jobs : jobs[j].pc = "done"
    /\ Len(wire) = 2
    /\ IsFile(wire[2].msg)
    /\ C23_Stored(2)
    /\ \E j \in Jobs : jobs[j].sent = {} /\ jobs[j].outcome.tag = "Ok"

(***************************************************************************)
(* C25.  While a call waits in socket.recv, the mutex is locked and        *)
(* exactly one job, the one that waits, is inside file_from_hash; a step   *)
(* taken while it waits that does not deliver a datagram to it leaves it   *)
(* waiting, leaves the mutex locked, sends nothing, starts no call and     *)
(* ends none, so no other job enters file_from_hash or returns from it     *)
(* until the reply arrives.  When every request is answered with a         *)
(* well-formed reply and every job that can take a step eventually takes   *)
(* it, then once the batch is set up, eventually no call waits, the mutex  *)
(* is free and every job is through, so every file_from_hash call of the   *)
(* batch has returned (or the clock of the model has run out of instants). *)
(***************************************************************************)
C25_Waiting ==
    pc = "recv" =>
        /\ mutex.locked
        /\ Cardinality({ j \in DOMAIN jobs : jobs[j].pc = "calling" }) = 1
        /\ wire[Len(wire)].reply = NoReply

C25_Step ==
    (pc = "recv" /\ wire'[Len(wire)].reply = NoReply) =>
        /\ pc' = "recv"
        /\ wire' = wire
        /\ calls' = calls
        /\ mutex' = mutex
        /\ \A j \in DOMAIN jobs :
              (jobs'[j].pc = "calling") = (jobs[j].pc = "calling")

\* The clock of the model has no instant left for another transmission.
C25_ClockRanOut ==
    \A t \in Instants : t < now + sleep_duration(now - last_send)

C25_Returns ==
    (jobs # <<>>)
       ~> \/ C25_ClockRanOut
          \/ /\ jobs # <<>>
             /\ pc = "idle"
             /\ ~mutex.locked
             /\ \A j \in DOMAIN jobs : jobs[j].pc \in {"done", "panicked"}

=============================================================================
